---- MODULE Spec2Model ----
(***************************************************************************)
(* Model of the website analyzer core (src/analyzer.py): the per-site      *)
(* pipeline WebsiteRater.analyze_website (fetch, parse, metric extraction, *)
(* scoring) and the batch coordinator WebsiteRater.analyze_websites        *)
(* (thread pool fan-out, in-order collection, aggregation).                *)
(*                                                                         *)
(* Numbers.  Scores are Python floats with at most two decimals; the model *)
(* holds them as integers in hundredths (8.0 is 800).  Times are in        *)
(* milliseconds and body sizes in bytes, and the threshold ladders are     *)
(* scaled to the same units.                                               *)
(***************************************************************************)
EXTENDS Integers, Sequences, FiniteSets, TLC

VARIABLES
    sum_compensated,  \* the interpreter's builtin sum(): TRUE when it compensates float error
    call,             \* the last direct call of analyze_website: its inputs and its outcome
    urls,             \* analyze_websites: the input list
    max_workers,      \* WebsiteRater.max_workers
    fetcher,          \* the network: what each normalized URL answers
    pc,               \* analyze_websites: position of the calling thread
    futures,          \* future_to_url, in insertion order
    work_queue,       \* the executor's queue of submitted, not yet started tasks
    running,          \* the tasks the worker threads are executing
    cursor,           \* how many futures the for loop at line 31 has consumed
    results,          \* analyze_websites: the local list results
    report            \* the value analyze_websites returned, NoReport before

vars == <<sum_compensated, call, urls, max_workers, fetcher, pc, futures, work_queue, running, cursor, results, report>>

(***************************************************************************)
(* Bounds of the model.                                                    *)
(***************************************************************************)
MaxUrls == 3
MaxHeadings == 6
MaxRoles == 6
MaxFonts == 3
MaxImages == 3
MaxForms == 3

(***************************************************************************)
(* Small helpers.                                                          *)
(***************************************************************************)
Min(a, b) == IF a <= b THEN a ELSE b

RECURSIVE SeqSum(_)
SeqSum(s) == IF s = <<>> THEN 0 ELSE Head(s) + SeqSum(Tail(s))

\* v when the condition holds, else 0: the "10 if ... else 0" expressions.
If(c, v) == IF c THEN v ELSE 0

(***************************************************************************)
(* IEEE-754 doubles, as far as round(sum(xs) / len(xs), 2) needs them.     *)
(* A double near the decimal D/100 is held as its error E against D/100,   *)
(* in units of 1/(100 * 2^60); a double carries 52 fraction bits.  The     *)
(* decimal nearest to the quotient is decided by D alone except on an      *)
(* exact decimal tie, where the sign of the accumulated float error        *)
(* decides, as it does in the interpreter (the division by 2 or 4 is       *)
(* exact, and no other divisor below 6 has a tie).                         *)
(***************************************************************************)

\* 2^k mod 100 for k >= 2: the residues repeat with period 20
Pow2Mod100(k) == (2 ^ (((k - 2) % 20) + 2)) % 100

\* 2^j <= D/100, for D >= 1
AtLeastPow2(D, j) == IF j >= 0 THEN 100 * (2 ^ j) <= D ELSE 100 <= D * (2 ^ (0 - j))

IsPow2(D, j) == IF j >= 0 THEN 100 * (2 ^ j) = D ELSE 100 = D * (2 ^ (0 - j))

\* The binary exponent of the value D/100 + E: floor(log2) of it.
Exponent(D, E) ==
    LET j == CHOOSE k \in (-7)..8 : AtLeastPow2(D, k) /\ ((k = 8) \/ ~AtLeastPow2(D, k + 1))
    IN  IF E < 0 /\ IsPow2(D, j) THEN j - 1 ELSE j

\* The error of the double nearest to D/100 + E (round to nearest, ties to even).
FlErr(D, E) ==
    IF D = 0 THEN 0
    ELSE LET ex == Exponent(D, E)
             m == 8 + ex
             G == 100 * (2 ^ m)
             r2 == ((2 ^ (m + 1)) * (((D % 100) * Pow2Mod100(51 - ex)) % 100) + E) % (2 * G)
             r == r2 % G
         IN  IF 2 * r < G THEN E - r
             ELSE IF 2 * r > G THEN E + (G - r)
             ELSE IF r2 >= G THEN E + (G - r) ELSE E - r

\* The error of the float that holds the two-decimal value A/100.
Conv(A) == FlErr(A, 0)

\* sum(xs), left to right from 0, every addition rounded: <<decimal sum, error>>
RECURSIVE NaiveSum(_, _, _)
NaiveSum(xs, D, E) ==
    IF xs = <<>> THEN <<D, E>>
    ELSE NaiveSum(Tail(xs), D + Head(xs), FlErr(D + Head(xs), E + Conv(Head(xs))))

RECURSIVE ErrSum(_)
ErrSum(xs) == IF xs = <<>> THEN 0 ELSE Conv(Head(xs)) + ErrSum(Tail(xs))

\* sum(xs) with compensated summation: the exact sum of the floats, rounded once.
CompensatedSum(xs) == <<SeqSum(xs), FlErr(SeqSum(xs), ErrSum(xs))>>

FloatSum(xs) == IF sum_compensated THEN CompensatedSum(xs) ELSE NaiveSum(xs, 0, 0)

\* round(num/den) to the nearest integer, an exact tie decided by tie: -1 down, 1 up, 0 to even
RoundDiv(num, den, tie) ==
    LET q == num \div den
        r == num % den
    IN  IF 2 * r < den THEN q
        ELSE IF 2 * r > den THEN q + 1
        ELSE IF tie > 0 THEN q + 1
        ELSE IF tie < 0 THEN q
        ELSE IF q % 2 = 0 THEN q ELSE q + 1

Sign(e) == IF e > 0 THEN 1 ELSE IF e < 0 THEN -1 ELSE 0

\* round(sum(xs) / len(xs), 2) in hundredths; xs is not empty.  The float error is looked
\* at only on a decimal tie: off a tie it cannot change the nearest decimal.
RoundMean(xs) ==
    IF 2 * (SeqSum(xs) % Len(xs)) # Len(xs) THEN RoundDiv(SeqSum(xs), Len(xs), 0)
    ELSE RoundDiv(SeqSum(xs), Len(xs), Sign(FloatSum(xs)[2]))

(***************************************************************************)
(* The fetched page.  A response is what requests.get hands back; the      *)
(* parsed document (soup) is held by the answers to the queries the metric *)
(* extractor makes of it.                                                  *)
(*   html          "none": no html element; "nolang", "emptylang", "lang"  *)
(*   style_link    number of style and link elements                       *)
(*   font_family   number of distinct ones that contain 'font-family'      *)
(*   color_scheme  'prefers-color-scheme' occurs in the markup             *)
(*   headings, h1  number of h1..h6 elements; an h1 is among them          *)
(*   semantic      how many of the semantic tags occur                     *)
(*   forms         per form: its numbers of fields (inputs) and labels     *)
(***************************************************************************)
SemanticElements == 7

WellFormed(soup) ==
    /\ soup.font_family <= soup.style_link
    /\ soup.canonical => soup.style_link >= 1
    /\ soup.h1 => soup.headings >= 1
    /\ soup.images_alt <= soup.images

(***************************************************************************)
(* Exceptions.  A call either returns a value or raises: Ok(v), Raise(e).  *)
(***************************************************************************)
Ok(v) == [raised |-> FALSE, value |-> v]
Raise(e) == [raised |-> TRUE, value |-> e]

(***************************************************************************)
(* Metric extraction and rating (analyzer.py 124-245).                     *)
(***************************************************************************)
\* faulty variant: a value equal to a threshold falls into the next bucket
RECURSIVE RateFromStrict(_, _, _, _)
RateFromStrict(value, thresholds, reverse, i) ==
    IF i >= Len(thresholds) THEN (IF reverse THEN 0 ELSE 10)
    ELSE IF value < thresholds[i + 1] THEN (IF reverse THEN 10 - (i * 2) ELSE (i + 1) * 2)
    ELSE RateFromStrict(value, thresholds, reverse, i + 1)

_rate_metric_strict(value, thresholds, reverse) == RateFromStrict(value, thresholds, reverse, 0)

\* for i, threshold in enumerate(thresholds): i counts from 0, thresholds[i + 1] is the i-th
RECURSIVE RateFrom(_, _, _, _)
RateFrom(value, thresholds, reverse, i) ==
    IF i >= Len(thresholds) THEN (IF reverse THEN 0 ELSE 10)
    ELSE IF value <= thresholds[i + 1] THEN (IF reverse THEN 10 - (i * 2) ELSE (i + 1) * 2)
    ELSE RateFrom(value, thresholds, reverse, i + 1)

_rate_metric(value, thresholds, reverse) == RateFrom(value, thresholds, reverse, 0)

LoadTimeThresholds == <<1000, 2000, 3000, 4000, 5000>>
ResponseSizeThresholds == <<1048576, 2097152, 5242880, 10485760, 20971520>>
TtfbThresholds == <<100, 300, 500, 800, 1000>>

_check_performance(response) ==
    [load_time |-> 100 * _rate_metric(response.load_time, LoadTimeThresholds, FALSE),
     response_size |-> 100 * _rate_metric(response.content_length, ResponseSizeThresholds, TRUE),
     ttfb |-> 100 * _rate_metric(response.elapsed, TtfbThresholds, TRUE),
     compression |-> If(response.gzip, 1000)]

_analyze_color_contrast(soup) == If(soup.style_link > 0, 500) + If(soup.color_scheme, 500)

_analyze_typography(soup) == Min(soup.font_family * 200, 500) + If(soup.headings > 0, 500)

\* faulty variant: the cap forgotten
_analyze_layout_uncapped(soup) == soup.semantic * 150

_analyze_layout(soup) == Min(soup.semantic * 150, 1000)

_check_responsive_design(soup) ==
    If(soup.viewport, 400) + If(soup.media, 300) + If(soup.picture, 300)

_analyze_visual_hierarchy(soup) ==
    If(soup.h1, 300) + If(soup.lists, 200) + If(soup.emphasis, 200) + If(soup.quote, 300)

_analyze_headings(soup) == IF soup.headings = 0 THEN 0 ELSE Min(soup.headings * 200, 1000)

\* round((with_alt / images) * 10, 2): no decimal tie below 16 images
_check_img_alt(soup) ==
    IF soup.images = 0 THEN 1000 ELSE RoundDiv(1000 * soup.images_alt, soup.images, 0)

_check_aria_landmarks(soup) == Min(soup.roles * 200, 1000)

RECURSIVE FormScore(_)
FormScore(forms) ==
    IF forms = <<>> THEN 0
    ELSE If(Head(forms).inputs > 0 /\ Head(forms).inputs <= Head(forms).labels, 500)
         + FormScore(Tail(forms))

_check_form_labels(soup) == IF soup.forms = <<>> THEN 1000 ELSE Min(FormScore(soup.forms), 1000)

_analyze_design(soup) ==
    [color_contrast |-> _analyze_color_contrast(soup),
     typography |-> _analyze_typography(soup),
     layout_structure |-> _analyze_layout(soup),
     responsive_design |-> _check_responsive_design(soup),
     visual_hierarchy |-> _analyze_visual_hierarchy(soup)]

_check_seo_basics(soup) ==
    [title |-> If(soup.title, 1000),
     meta_description |-> If(soup.description, 1000),
     headings |-> _analyze_headings(soup),
     img_alt |-> _check_img_alt(soup),
     canonical |-> If(soup.canonical, 1000)]

\* soup.html.get('lang'): soup.html is None when the document has no html element
_check_accessibility(soup) ==
    IF soup.html = "none" THEN Raise("'NoneType' object has no attribute 'get'")
    ELSE Ok([lang_attribute |-> If(soup.html = "lang", 1000),
             aria_landmarks |-> _check_aria_landmarks(soup),
             form_labels |-> _check_form_labels(soup),
             alt_texts |-> _check_img_alt(soup),
             heading_structure |-> _analyze_headings(soup)])

\* dict.values(), in insertion order
PerformanceValues(m) == <<m.load_time, m.response_size, m.ttfb, m.compression>>
DesignValues(m) == <<m.color_contrast, m.typography, m.layout_structure, m.responsive_design, m.visual_hierarchy>>
SeoValues(m) == <<m.title, m.meta_description, m.headings, m.img_alt, m.canonical>>
AccessibilityValues(m) == <<m.lang_attribute, m.aria_landmarks, m.form_labels, m.alt_texts, m.heading_structure>>
(***************************************************************************)
(* analyze_website (analyzer.py 69-122).                                   *)
(***************************************************************************)
\* if not url.startswith(('http://', 'https://')): url = 'https://' + url
Normalize(url) == IF url.scheme = "" THEN [url EXCEPT !.scheme = "https://"] ELSE url

Success(url, scores, metrics) == [success |-> TRUE, url |-> url, scores |-> scores, metrics |-> metrics]
Failure(url, error) == [success |-> FALSE, url |-> url, error |-> error]

\* requests.get and raise_for_status: the transport errors
Fetch(response) ==
    IF response.fetch = "timeout" THEN Raise("Read timed out")
    ELSE IF response.fetch = "connection_error" THEN Raise("Connection refused")
    ELSE IF response.fetch = "http_error" THEN Raise("404 Client Error")
    ELSE Ok(response)

\* BeautifulSoup(response.text, 'html.parser')
Parse(response) == IF response.parsable THEN Ok(response.soup) ELSE Raise("parser rejected the markup")

Scores(performance, design, seo, accessibility) ==
    LET four == <<RoundMean(PerformanceValues(performance)), RoundMean(DesignValues(design)),
                  RoundMean(SeoValues(seo)), RoundMean(AccessibilityValues(accessibility))>>
    IN  [performance_score |-> four[1], design_score |-> four[2], seo_score |-> four[3],
         accessibility_score |-> four[4],
         \* len(scores) is 4 when the overall score is computed
         overall_score |-> RoundMean(four)]

\* The try block, lines 74-114, on the normalized url.
AnalyzeBody(url, response) ==
    IF Fetch(response).raised THEN Fetch(response)
    ELSE IF Parse(response).raised THEN Parse(response)
    ELSE LET soup == Parse(response).value
             performance == _check_performance(response)
             design == _analyze_design(soup)
             seo == _check_seo_basics(soup)
             accessibility == _check_accessibility(soup)
         IN  IF accessibility.raised THEN accessibility
             ELSE Ok(Success(url, Scores(performance, design, seo, accessibility.value),
                             [performance |-> performance, design |-> design, seo |-> seo,
                              accessibility |-> accessibility.value]))

\* faulty variant: except requests.RequestException, which lets every other error through
analyze_website_transport_only(url, response) ==
    LET r == AnalyzeBody(Normalize(url), response)
    IN  IF r.raised /\ response.fetch # "ok" THEN Ok(Failure(Normalize(url), r.value)) ELSE r

\* try: ... except Exception as e: return {'success': False, 'url': url, 'error': str(e)}
analyze_website(url, response) ==
    LET r == AnalyzeBody(Normalize(url), response)
    IN  IF r.raised THEN Ok(Failure(Normalize(url), r.value)) ELSE r

(***************************************************************************)
(* Inputs: URLs, responses, documents.                                     *)
(***************************************************************************)
InputURLs == {[scheme |-> "", rest |-> "a.com"], [scheme |-> "http://", rest |-> "b.org"]}

LoadTimes == {50, 1000, 1001, 2000, 3000, 4000, 5000, 5001}
ContentLengths == {0, 512000, 1048576, 1048577, 2097152, 5242880, 10485760, 20971520, 20971521}
Elapseds == {50, 100, 101, 300, 500, 800, 1000, 1001}

PoorSoup ==
    [html |-> "nolang", style_link |-> 0, font_family |-> 0, color_scheme |-> FALSE,
     headings |-> 0, h1 |-> FALSE, semantic |-> 0, viewport |-> FALSE, media |-> FALSE,
     picture |-> FALSE, lists |-> FALSE, emphasis |-> FALSE, quote |-> FALSE, title |-> FALSE,
     description |-> FALSE, canonical |-> FALSE, images |-> 1, images_alt |-> 0, roles |-> 0,
     forms |-> <<[inputs |-> 1, labels |-> 0]>>]

RichSoup ==
    [html |-> "lang", style_link |-> MaxFonts, font_family |-> MaxFonts, color_scheme |-> TRUE,
     headings |-> MaxHeadings, h1 |-> TRUE, semantic |-> SemanticElements, viewport |-> TRUE,
     media |-> TRUE, picture |-> TRUE, lists |-> TRUE, emphasis |-> TRUE, quote |-> TRUE,
     title |-> TRUE, description |-> TRUE, canonical |-> TRUE, images |-> 1, images_alt |-> 1,
     roles |-> MaxRoles, forms |-> <<>>]

BaseSoups == {PoorSoup, RichSoup}

\* Documents that differ from a base in what the design metrics read.
DesignSoups ==
    {[b EXCEPT !.style_link = sl, !.font_family = ff, !.color_scheme = cs, !.semantic = se,
               !.viewport = vp, !.media = me, !.picture = pi, !.canonical = b.canonical /\ sl >= 1] :
        b \in BaseSoups, sl \in 0..MaxFonts, ff \in 0..MaxFonts, cs \in BOOLEAN,
        se \in 0..SemanticElements, vp \in BOOLEAN, me \in BOOLEAN, pi \in BOOLEAN}

\* ... in the headings and the text structure.
HierarchySoups ==
    {[b EXCEPT !.headings = n, !.h1 = h, !.lists = li, !.emphasis = em, !.quote = qu] :
        b \in BaseSoups, n \in 0..MaxHeadings, h \in BOOLEAN, li \in BOOLEAN, em \in BOOLEAN,
        qu \in BOOLEAN}

\* ... in what the SEO metrics read.
SeoSoups ==
    {[b EXCEPT !.title = ti, !.description = de, !.canonical = ca, !.images = n, !.images_alt = k,
               !.style_link = IF ca /\ b.style_link = 0 THEN 1 ELSE b.style_link] :
        b \in BaseSoups, ti \in BOOLEAN, de \in BOOLEAN, ca \in BOOLEAN, n \in 0..MaxImages,
        k \in 0..MaxImages}

FormKinds == {[inputs |-> 0, labels |-> 1], [inputs |-> 1, labels |-> 1], [inputs |-> 2, labels |-> 1]}

FormLists == UNION {[1..n -> FormKinds] : n \in 0..MaxForms}

\* ... in what the accessibility metrics read.
AccessibilitySoups ==
    {[b EXCEPT !.html = ht, !.roles = ro, !.forms = fo] :
        b \in BaseSoups, ht \in {"none", "nolang", "emptylang", "lang"}, ro \in 0..MaxRoles,
        fo \in FormLists}

Soups == {s \in DesignSoups \cup HierarchySoups \cup SeoSoups \cup AccessibilitySoups : WellFormed(s)}

Page(lt, cl, el, gz, soup) ==
    [fetch |-> "ok", parsable |-> TRUE, load_time |-> lt, content_length |-> cl, elapsed |-> el,
     gzip |-> gz, soup |-> soup]

\* The worst and the best transfer: the first byte never comes after the whole body.
SlowPage(soup) == Page(1000, 20971521, 1000, FALSE, soup)
FastPage(soup) == Page(5001, 0, 50, TRUE, soup)

Transfers == {t \in LoadTimes \X Elapseds : t[2] <= t[1]}

Pages ==
    {Page(t[1], cl, t[2], gz, b) : t \in Transfers, cl \in ContentLengths, gz \in BOOLEAN, b \in BaseSoups}
    \cup {SlowPage(s) : s \in Soups} \cup {FastPage(s) : s \in Soups}

FailedFetches ==
    {[SlowPage(PoorSoup) EXCEPT !.fetch = f] : f \in {"timeout", "connection_error", "http_error"}}

Rejected == [FastPage(RichSoup) EXCEPT !.parsable = FALSE]

Responses == FailedFetches \cup {Rejected} \cup Pages
(***************************************************************************)
(* analyze_websites (analyzer.py 21-67, 247-257).                          *)
(***************************************************************************)
TopThreshold == 800
ImprovementThreshold == 500
DefaultWorkers == 5

\* faulty variant: the boundary left out
_get_top_performers_strict(rs, threshold) ==
    SelectSeq(rs, LAMBDA r : r.success /\ r.scores.overall_score > threshold)

_get_top_performers(rs, threshold) ==
    SelectSeq(rs, LAMBDA r : r.success /\ r.scores.overall_score >= threshold)

_get_needs_improvement(rs, threshold) ==
    SelectSeq(rs, LAMBDA r : r.success /\ r.scores.overall_score <= threshold)

SuccessfulResults(rs) == SelectSeq(rs, LAMBDA r : r.success)

\* r['scores'][key] for r in successful_results
Column(rs, key) == [i \in 1..Len(rs) |-> rs[i].scores[key]]

ScoreKeys == {"performance_score", "design_score", "seo_score", "accessibility_score", "overall_score"}

\* faulty variant: a zero for every key when nothing succeeded, where the code leaves {}
AverageScoresZeroed(rs) ==
    IF SuccessfulResults(rs) = <<>> THEN [key \in ScoreKeys |-> 0]
    ELSE [key \in ScoreKeys |-> RoundMean(Column(SuccessfulResults(rs), key))]

\* faulty variant: the sum over the successes divided by the number of all results
AverageScoresOverAll(rs) ==
    IF SuccessfulResults(rs) = <<>> THEN <<>>
    ELSE [key \in ScoreKeys |-> RoundDiv(SeqSum(Column(SuccessfulResults(rs), key)), Len(rs), 0)]

\* lines 43-52: average_scores stays {} unless there is a success
AverageScores(rs) ==
    IF SuccessfulResults(rs) = <<>> THEN <<>>
    ELSE [key \in ScoreKeys |-> RoundMean(Column(SuccessfulResults(rs), key))]

\* report_data, without the wall-clock fields timestamp and analysis_time
ReportData(us, rs) ==
    [total_sites |-> Len(us),
     successful_analyses |-> Len(SuccessfulResults(rs)),
     average_scores |-> AverageScores(rs),
     detailed_results |-> rs,
     top_performers |-> _get_top_performers(rs, TopThreshold),
     needs_improvement |-> _get_needs_improvement(rs, ImprovementThreshold)]

NoReport == [total_sites |-> -1]
NoCall == [made |-> FALSE]
NoOutcome == [raised |-> FALSE, value |-> "pending"]

\* The task a worker thread runs: self.analyze_website(url).  An answer "defect" stands for
\* an error that escapes the analyzer (raised while its handler, lines 116-122, runs).
WorkItem(url, answer) ==
    IF answer.fetch = "defect" THEN Raise("defect in the analyzer") ELSE analyze_website(url, answer)

\* executor.submit(self.analyze_website, url), one per step of the comprehension at line 30
Submit ==
    /\ pc = "submit"
    /\ Len(futures) < Len(urls)
    /\ futures' = Append(futures, [url |-> urls[Len(futures) + 1], state |-> "PENDING", outcome |-> NoOutcome])
    /\ work_queue' = Append(work_queue, Len(futures) + 1)
    /\ UNCHANGED <<sum_compensated, call, urls, max_workers, fetcher, pc, running, cursor, results, report>>

\* the comprehension is exhausted: the for loop at line 31 starts
Submitted ==
    /\ pc = "submit"
    /\ Len(futures) = Len(urls)
    /\ pc' = "collect"
    /\ UNCHANGED <<sum_compensated, call, urls, max_workers, fetcher, futures, work_queue, running, cursor, results, report>>

\* a worker thread takes the oldest queued task
StartTask ==
    /\ work_queue # <<>>
    /\ Cardinality(running) < max_workers
    /\ running' = running \cup {Head(work_queue)}
    /\ futures' = [futures EXCEPT ![Head(work_queue)].state = "RUNNING"]
    /\ work_queue' = Tail(work_queue)
    /\ UNCHANGED <<sum_compensated, call, urls, max_workers, fetcher, pc, cursor, results, report>>

\* faulty variant: the url kept in a field of the shared rater, so a task analyzes the url of
\* the task started last
FinishTaskSharedUrl(i) ==
    /\ i \in running
    /\ LET last == CHOOSE k \in running : \A l \in running : l <= k
       IN  futures' = [futures EXCEPT ![i].state = "FINISHED",
                                      ![i].outcome = WorkItem(futures[last].url, fetcher[Normalize(futures[last].url)])]
    /\ running' = running \ {i}
    /\ UNCHANGED <<sum_compensated, call, urls, max_workers, fetcher, pc, work_queue, cursor, results, report>>

\* a worker thread ends its task: the future gets the result or the exception
FinishTask(i) ==
    /\ i \in running
    /\ futures' = [futures EXCEPT ![i].state = "FINISHED",
                                  ![i].outcome = WorkItem(futures[i].url, fetcher[Normalize(futures[i].url)])]
    /\ running' = running \ {i}
    /\ UNCHANGED <<sum_compensated, call, urls, max_workers, fetcher, pc, work_queue, cursor, results, report>>

\* faulty variant: the result read without waiting for the task
ReadyAtOnce(future) == TRUE

\* future.result() returns or raises once the future is finished; until then it blocks
Ready(future) == future.state = "FINISHED"

\* faulty variant: no try/except around future.result()
Unguarded(future) ==
    IF future.outcome.raised THEN Raise(future.outcome.value) ELSE Ok(future.outcome.value)

\* try: result = future.result() ... except Exception as e: ... (lines 32-41): what the
\* iteration appends, or the error it lets through
Guarded(future) ==
    IF future.outcome.raised THEN Ok(Failure(future.url, future.outcome.value))
    ELSE Ok(future.outcome.value)

\* faulty variant: the error of a task logged, no result appended for it
CollectSkippingErrors ==
    /\ pc = "collect"
    /\ cursor < Len(futures)
    /\ Ready(futures[cursor + 1])
    /\ results' = IF futures[cursor + 1].outcome.raised THEN results
                  ELSE Append(results, futures[cursor + 1].outcome.value)
    /\ cursor' = cursor + 1
    /\ UNCHANGED <<sum_compensated, call, urls, max_workers, fetcher, pc, futures, work_queue, running, report>>

\* faulty variant: the futures read from the last submitted to the first
CollectReversed ==
    /\ pc = "collect"
    /\ cursor < Len(futures)
    /\ Ready(futures[Len(futures) - cursor])
    /\ results' = Append(results, Guarded(futures[Len(futures) - cursor]).value)
    /\ cursor' = cursor + 1
    /\ UNCHANGED <<sum_compensated, call, urls, max_workers, fetcher, pc, futures, work_queue, running, report>>

\* one iteration of the for loop over future_to_url, in insertion order
Collect ==
    /\ pc = "collect"
    /\ cursor < Len(futures)
    /\ Ready(futures[cursor + 1])
    /\ IF Guarded(futures[cursor + 1]).raised
       THEN pc' = "raised" /\ UNCHANGED <<cursor, results>>
       ELSE /\ results' = Append(results, Guarded(futures[cursor + 1]).value)
            /\ cursor' = cursor + 1
            /\ pc' = pc
    /\ UNCHANGED <<sum_compensated, call, urls, max_workers, fetcher, futures, work_queue, running, report>>

\* leaving the with block: shutdown(wait=True) joins the worker threads
Joined == work_queue = <<>> /\ running = {}

\* the loop is over, the with block ends, the report is built and returned
Return ==
    /\ pc = "collect"
    /\ cursor = Len(futures)
    /\ Joined
    /\ report' = ReportData(urls, results)
    /\ pc' = "done"
    /\ UNCHANGED <<sum_compensated, call, urls, max_workers, fetcher, futures, work_queue, running, cursor, results>>

\* a direct call of analyze_website
AnalyzeOne ==
    /\ ~call.made
    /\ \E url \in InputURLs, response \in Responses :
          call' = [made |-> TRUE, url |-> url, response |-> response, outcome |-> analyze_website(url, response)]
    /\ UNCHANGED <<sum_compensated, urls, max_workers, fetcher, pc, futures, work_queue, running, cursor, results, report>>

(***************************************************************************)
(* The batch's inputs.                                                     *)
(***************************************************************************)
NormalizedURLs == {Normalize(u) : u \in InputURLs}

URLLists == UNION {[1..n -> InputURLs] : n \in 0..MaxUrls}

PoolSizes == {1, 2, DefaultWorkers}

\* Sample sites: overall scores 8.0, 7.99, 5.0 and 5.01, a document without an html element,
\* a timeout and a defect.
TopPage == Page(1000, 10485760, 1000, FALSE, RichSoup)

NearTopPage ==
    Page(1001, 5242880, 800, FALSE, [RichSoup EXCEPT !.semantic = 6, !.images = 3, !.images_alt = 2])

LowPage ==
    Page(1000, 2097152, 1000, FALSE,
         [RichSoup EXCEPT !.headings = 0, !.h1 = FALSE, !.viewport = FALSE, !.picture = FALSE,
                          !.description = FALSE, !.images_alt = 0])

NearLowPage ==
    Page(2000, 20971521, 1001, TRUE,
         [RichSoup EXCEPT !.headings = 0, !.h1 = FALSE, !.media = FALSE, !.quote = FALSE,
                          !.title = FALSE, !.canonical = FALSE, !.images = 3])

FragmentPage == FastPage([RichSoup EXCEPT !.html = "none"])

TimedOut == [SlowPage(PoorSoup) EXCEPT !.fetch = "timeout"]

Defect == [SlowPage(PoorSoup) EXCEPT !.fetch = "defect"]

Answers == {TopPage, NearTopPage, LowPage, NearLowPage, FragmentPage, TimedOut, Defect}

Idle ==
    /\ urls = <<>> /\ max_workers = DefaultWorkers
    /\ fetcher = [u \in NormalizedURLs |-> TimedOut]
    /\ pc = "done" /\ futures = <<>> /\ work_queue = <<>> /\ running = {} /\ cursor = 0
    /\ results = <<>> /\ report = NoReport

Init ==
    /\ sum_compensated \in BOOLEAN
    /\ call = NoCall
    /\ urls \in URLLists
    /\ max_workers \in PoolSizes
    /\ fetcher \in [NormalizedURLs -> Answers]
    /\ pc = "submit" /\ futures = <<>> /\ work_queue = <<>> /\ running = {} /\ cursor = 0
    /\ results = <<>> /\ report = NoReport

Next ==
    \/ Submit
    \/ Submitted
    \/ StartTask
    \/ \E i \in 1..MaxUrls : FinishTask(i)
    \/ Collect
    \/ Return

Spec == Init /\ [][Next]_vars

InitScore == sum_compensated \in BOOLEAN /\ call = NoCall /\ Idle

NextScore == AnalyzeOne

SpecScore == InitScore /\ [][NextScore]_vars

(***************************************************************************)
(* The sample sites have the overall scores they are named for.            *)
(***************************************************************************)
Overall(page) == analyze_website(CHOOSE u \in InputURLs : TRUE, page).value.scores.overall_score

SamplesAsIntended ==
    /\ Overall(TopPage) = 800 /\ Overall(NearTopPage) = 799
    /\ Overall(LowPage) = 500 /\ Overall(NearLowPage) = 501

(***************************************************************************)
(* Properties.                                                             *)
(***************************************************************************)
IsSuccess(v) == DOMAIN v = {"success", "url", "scores", "metrics"} /\ v.success
IsFailure(v) == DOMAIN v = {"success", "url", "error"} /\ ~v.success

Successes == {i \in 1..Len(results) : results[i].success}
Failures == {i \in 1..Len(results) : ~results[i].success}

\* how many entries of a list of URLs name the site u
Entries(us, u) == Cardinality({i \in 1..Len(us) : Normalize(us[i]) = u})

\* how many results are about the site u
ResultsAbout(rs, u) == Cardinality({i \in 1..Len(rs) : Normalize(rs[i].url) = u})

\* C1: analyze_websites returns exactly one result per input entry, repeated URLs included:
\* the results never outnumber the entries, and the returned sequence is as long as the
\* input, total_sites says so, and every site has as many results as entries.
C1_OneResultPerEntry ==
    /\ Len(results) <= Len(urls)
    /\ pc = "done" =>
          /\ Len(report.detailed_results) = Len(urls)
          /\ report.total_sites = Len(urls)
          /\ \A u \in NormalizedURLs : ResultsAbout(report.detailed_results, u) = Entries(urls, u)

\* a returned batch with a repeated URL, a success and a failure
C1_Witness ==
    /\ pc = "done"
    /\ \E i, j \in 1..Len(urls) : i < j /\ urls[i] = urls[j]
    /\ Successes # {} /\ Failures # {}

\* C2: an error raised by a worker task is caught by the coordinator and becomes a Failure
\* with the error's message and the task's input URL; the other tasks' results are
\* collected unchanged, and the call never lets the error through: it returns the report.
C2_RaisingTaskBecomesFailure ==
    /\ pc # "raised"
    /\ \A i \in 1..Len(results) :
          IF futures[i].outcome.raised
          THEN results[i] = [success |-> FALSE, url |-> urls[i], error |-> futures[i].outcome.value]
          ELSE results[i] = futures[i].outcome.value
    /\ pc = "done" => report.detailed_results = results /\ Len(results) = Len(urls)

\* a returned batch in which one task raised and another one succeeded
C2_Witness ==
    /\ pc = "done"
    /\ \E i \in 1..Len(urls) : futures[i].outcome.raised /\ ~report.detailed_results[i].success
    /\ \E j \in 1..Len(urls) : report.detailed_results[j].success

\* C3: analyze_website never raises: whatever the fetch, the parser and the metric
\* extraction do, it returns a Success or a Failure about the normalized URL, and after a
\* transport error, a parse error or an unexpected error the value is a Failure.
C3_NeverRaises ==
    call.made =>
        /\ ~call.outcome.raised
        /\ IsSuccess(call.outcome.value) \/ IsFailure(call.outcome.value)
        /\ call.outcome.value.url = Normalize(call.url)
        /\ (call.response.fetch # "ok" \/ ~call.response.parsable \/ call.response.soup.html = "none")
              => IsFailure(call.outcome.value)

\* an unexpected error inside the metric extraction came back as a Failure
C3_Witness ==
    /\ call.made
    /\ call.response.fetch = "ok" /\ call.response.parsable /\ call.response.soup.html = "none"
    /\ ~call.outcome.raised /\ IsFailure(call.outcome.value)

\* C4: a result is taken only from a finished task, and a report exists only once every
\* submitted task is finished and no worker is busy; it holds a result for every entry.
C4_ReportAfterAllTasks ==
    /\ \A i \in 1..Len(results) : futures[i].state = "FINISHED"
    /\ pc = "done" =>
          /\ Len(futures) = Len(urls)
          /\ \A i \in 1..Len(urls) : futures[i].state = "FINISHED"
          /\ running = {} /\ work_queue = <<>>
          /\ Len(report.detailed_results) = Len(urls)
    /\ pc # "done" => report = NoReport

\* a report returned by a pool of two workers that had three tasks to run
C4_Witness == pc = "done" /\ max_workers = 2 /\ Len(urls) = 3 /\ Len(report.detailed_results) = 3

\* what a single worker produces: the tasks run one after the other, in input order
SequentialResults ==
    [i \in 1..Len(urls) |->
        LET outcome == WorkItem(urls[i], fetcher[Normalize(urls[i])])
        IN  IF outcome.raised THEN Failure(urls[i], outcome.value) ELSE outcome.value]

Aggregates(r) ==
    [total_sites |-> r.total_sites, successful_analyses |-> r.successful_analyses,
     average_scores |-> r.average_scores, top_performers |-> r.top_performers,
     needs_improvement |-> r.needs_improvement]

\* C5: with a deterministic fetcher the report's aggregates are those of the sequential
\* run, whatever the pool size (1, 2 or 5) and the interleaving of the workers: so a pool
\* of 1 and a pool of 5 agree on them.
C5_PoolSizeIndependent ==
    pc = "done" => Aggregates(report) = Aggregates(ReportData(urls, SequentialResults))

\* a pool of five returned a report on two sites that answer differently
C5_Witness ==
    /\ pc = "done" /\ max_workers = DefaultWorkers
    /\ \E i, j \in 1..Len(urls) : fetcher[Normalize(urls[i])] # fetcher[Normalize(urls[j])]
    /\ Successes # {}

\* C6: a batch without a Success (every URL failed, or the list was empty) returns
\* successful_analyses = 0, the empty mapping as average_scores and two empty views.
C6_NoSuccess ==
    (pc = "done" /\ Successes = {}) =>
        /\ report.total_sites = Len(urls)
        /\ report.successful_analyses = 0
        /\ report.average_scores = <<>>
        /\ report.top_performers = <<>>
        /\ report.needs_improvement = <<>>

\* a returned batch of two or more URLs that all failed
C6_Witness == pc = "done" /\ Len(urls) >= 2 /\ Successes = {} /\ report.successful_analyses = 0

RECURSIVE SumOfSuccesses(_, _)
SumOfSuccesses(key, n) ==
    IF n = 0 THEN 0
    ELSE (IF results[n].success THEN results[n].scores[key] ELSE 0) + SumOfSuccesses(key, n - 1)

\* C7: with a Success in the batch, successful_analyses counts the Success results and
\* every field of average_scores is within half a hundredth of the mean of that field
\* over the Success results (the mean rounded to 2 decimals); Failures count for nothing.
C7_AverageOverSuccesses ==
    (pc = "done" /\ Successes # {}) =>
        /\ report.successful_analyses = Cardinality(Successes)
        /\ DOMAIN report.average_scores = ScoreKeys
        /\ \A key \in ScoreKeys :
              LET n == Cardinality(Successes)
                  d == n * report.average_scores[key] - SumOfSuccesses(key, Len(results))
              IN  2 * d <= n /\ 2 * (0 - d) <= n

\* a returned batch with two Success results and a Failure
C7_Witness == pc = "done" /\ Cardinality(Successes) = 2 /\ Failures # {}

InView(view, r) == \E j \in 1..Len(view) : view[j] = r

\* C8: a result is in top_performers exactly when it is a Success with overall_score >= 8.0,
\* in needs_improvement exactly when it is a Success with overall_score <= 5.0, and the
\* views hold nothing but results.
C8_ViewsInclusive ==
    pc = "done" =>
        /\ \A i \in 1..Len(results) :
              LET r == report.detailed_results[i]
              IN  /\ InView(report.top_performers, r) <=> (r.success /\ r.scores.overall_score >= 800)
                  /\ InView(report.needs_improvement, r) <=> (r.success /\ r.scores.overall_score <= 500)
        /\ \A j \in 1..Len(report.top_performers) : InView(report.detailed_results, report.top_performers[j])
        /\ \A j \in 1..Len(report.needs_improvement) : InView(report.detailed_results, report.needs_improvement[j])

\* a returned batch with a site at 8.0 among the top performers and one at 5.0 among those
\* that need improvement
C8_Witness ==
    /\ pc = "done"
    /\ \E i \in Successes : results[i].scores.overall_score = 800 /\ InView(report.top_performers, results[i])
    /\ \E i \in Successes : results[i].scores.overall_score = 500 /\ InView(report.needs_improvement, results[i])

InRange(x) == 0 <= x /\ x <= 1000

\* C9: in a Success every sub-score of the four metric groups, the four category scores
\* and the overall score lie in [0, 10].
C9_ScoresInRange ==
    (call.made /\ ~call.outcome.raised /\ call.outcome.value.success) =>
        LET v == call.outcome.value
        IN  /\ \A g \in DOMAIN v.metrics : \A k \in DOMAIN v.metrics[g] : InRange(v.metrics[g][k])
            /\ \A k \in DOMAIN v.scores : InRange(v.scores[k])

\* a document with all seven semantic tags: the layout score is capped at 10, and so is
\* the overall score of the best page
C9_Witness ==
    /\ call.made /\ ~call.outcome.raised /\ call.outcome.value.success
    /\ call.response.soup.semantic = SemanticElements
    /\ call.outcome.value.metrics.design.layout_structure = 1000
    /\ call.outcome.value.scores.overall_score = 1000

\* C10: every fetched document the parser accepts, with or without an html element, is
\* analyzed to a Success whose lang_attribute is 10 if the html element has a non-empty
\* lang attribute and 0 otherwise.
C10_LangAttribute ==
    (call.made /\ call.response.fetch = "ok" /\ call.response.parsable) =>
        /\ ~call.outcome.raised
        /\ call.outcome.value.success
        /\ call.outcome.value.metrics.accessibility.lang_attribute
              = (IF call.response.soup.html = "lang" THEN 1000 ELSE 0)

\* the first index, counted from 0, whose threshold the value does not exceed; -1 if none
FirstBucket(value, thresholds) ==
    LET hit == {i \in 0..(Len(thresholds) - 1) : value <= thresholds[i + 1]}
    IN  IF hit = {} THEN -1 ELSE CHOOSE i \in hit : \A j \in hit : i <= j

Ascending(value, thresholds) ==
    IF FirstBucket(value, thresholds) = -1 THEN 10 ELSE (FirstBucket(value, thresholds) + 1) * 2

Descending(value, thresholds) ==
    IF FirstBucket(value, thresholds) = -1 THEN 0 ELSE 10 - 2 * FirstBucket(value, thresholds)

\* [1, 2, 3, 4, 5] seconds in milliseconds, [1, 2, 5, 10, 20] megabytes in bytes
Seconds == [i \in 1..5 |-> 1000 * <<1, 2, 3, 4, 5>>[i]]
Megabytes == [i \in 1..5 |-> 1024 * 1024 * <<1, 2, 5, 10, 20>>[i]]

\* C11: the ladder is literal 'value <= threshold': ascending, the first index i (from 0)
\* with value <= thresholds[i] scores (i+1)*2 and a value above every threshold 10; in
\* reverse, the first such i scores 10-2i and a value above every threshold 0; a value equal
\* to a threshold is in that threshold's bucket.  So load_time over [1,2,3,4,5] s scores
\* 2,4,6,8,10 (above all: 10) and response_size over [1,2,5,10,20] MB 10,8,6,4,2 (above all: 0).
C11_ThresholdLadder ==
    (call.made /\ ~call.outcome.raised /\ call.outcome.value.success) =>
        LET rated == call.outcome.value.metrics.performance
            given == call.response
        IN  /\ rated.load_time = 100 * Ascending(given.load_time, Seconds)
            /\ rated.response_size = 100 * Descending(given.content_length, Megabytes)
            /\ \A k \in 1..5 :
                  /\ given.load_time = Seconds[k] => rated.load_time = 100 * 2 * k
                  /\ given.content_length = Megabytes[k] => rated.response_size = 100 * (12 - 2 * k)
            /\ given.load_time > Seconds[5] => rated.load_time = 1000
            /\ given.content_length > Megabytes[5] => rated.response_size = 0

\* a page that took exactly 2 s and weighs one byte more than 20 MB was rated 4 and 0
C11_Witness ==
    /\ call.made /\ ~call.outcome.raised /\ call.outcome.value.success
    /\ call.response.load_time = 2000 /\ call.response.content_length = 20971521
    /\ call.outcome.value.metrics.performance.load_time = 400
    /\ call.outcome.value.metrics.performance.response_size = 0

\* v keeps some of the entries of d, in d's order
RECURSIVE IsSubsequence(_, _)
IsSubsequence(v, d) ==
    IF v = <<>> THEN TRUE
    ELSE IF d = <<>> THEN FALSE
    ELSE IF Head(v) = Head(d) THEN IsSubsequence(Tail(v), Tail(d))
    ELSE IsSubsequence(v, Tail(d))

\* C12: whatever the order in which the tasks complete and whatever the pool size, the
\* i-th result collected is the result of the task submitted for the i-th input URL, so
\* detailed_results is in input order; top_performers and needs_improvement are
\* subsequences of detailed_results, in that order.
C12_InputOrder ==
    /\ \A i \in 1..Len(results) : i <= Len(urls) /\ results[i] = SequentialResults[i]
    /\ pc = "done" =>
          /\ Len(report.detailed_results) = Len(urls)
          /\ \A i \in 1..Len(urls) : report.detailed_results[i] = SequentialResults[i]
          /\ IsSubsequence(report.top_performers, report.detailed_results)
          /\ IsSubsequence(report.needs_improvement, report.detailed_results)

\* a pool of five returned three results on two different sites, both in a view
C12_Witness ==
    /\ pc = "done" /\ max_workers = DefaultWorkers /\ Len(urls) = 3
    /\ report.detailed_results[1] # report.detailed_results[2]
    /\ Len(report.top_performers) = 3
    /\ report.top_performers[1] # report.top_performers[2]
====
